---------------------------- MODULE Spec2Model ----------------------------
(***************************************************************************)
(* A model of the Discord message parser of formatting.go: the rule table  *)
(* built by NewParser and the stack-driven loop of Parser.Parse.           *)
(*                                                                         *)
(* A string is a sequence of bytes.  An ASCII byte is written as the       *)
(* one-character string it encodes ("a", " ", "\n"); the bytes of the      *)
(* multi-byte runes the patterns name are written in hexadecimal ("C2").   *)
(* Offsets are byte offsets counted from 0, as in Go.                      *)
(***************************************************************************)
EXTENDS Integers, Sequences, FiniteSets, TLC

(***************************************************************************)
(* Runes and their UTF-8 encoding.                                         *)
(***************************************************************************)
Digit == {"0", "1", "2", "3", "4", "5", "6", "7", "8", "9"}
Upper == {"A", "B", "C", "D", "E", "F", "G", "H", "I", "J", "K", "L", "M",
          "N", "O", "P", "Q", "R", "S", "T", "U", "V", "W", "X", "Y", "Z"}
Lower == {"a", "b", "c", "d", "e", "f", "g", "h", "i", "j", "k", "l", "m",
          "n", "o", "p", "q", "r", "s", "t", "u", "v", "w", "x", "y", "z"}
\* [0-9A-Za-z]
Alnum == Digit \cup Upper \cup Lower
\* \w of Go's regexp: [0-9A-Za-z_]
Word == Alnum \cup {"_"}
\* \s of Go's regexp: [\t\n\f\r ]
Space == {"\t", "\n", "\f", "\r", " "}

\* The multi-byte runes of the model: U+00AD (soft hyphen), U+00AF (macron),
\* U+30C4 (katakana tsu), and U+FFFD, which Go decodes an invalid byte to.
SHY == "U+00AD"
MACRON == "U+00AF"
TSU == "U+30C4"
RuneError == "U+FFFD"
\* The ASCII backquote, U+0060, which a string of this language cannot hold.
BQ == "U+0060"
MultiByte == {SHY, MACRON, TSU}
\* The runes of the model in the range \x{00c0}-\x{ffff}.
HighRunes == {TSU, RuneError}

Utf8(r) ==
    CASE r = SHY -> <<"C2", "AD">>
      [] r = MACRON -> <<"C2", "AF">>
      [] r = TSU -> <<"E3", "83", "84">>
      [] OTHER -> <<r>>

\* The bytes that are not ASCII.
HighBytes == {"C2", "AD", "AF", "E3", "83", "84"}

IsPrefixAt(enc, w, i) ==
    /\ i + Len(enc) - 1 <= Len(w)
    /\ \A j \in 1..Len(enc) : w[i + j - 1] = enc[j]

\* utf8.DecodeRuneInString at the 1-based index i of w: <<rune, width>>.
DecodeRune(w, i) ==
    IF w[i] \notin HighBytes THEN <<w[i], 1>>
    ELSE IF \E r \in MultiByte : IsPrefixAt(Utf8(r), w, i)
         THEN LET r == CHOOSE x \in MultiByte : IsPrefixAt(Utf8(x), w, i)
              IN  <<r, Len(Utf8(r))>>
         ELSE <<RuneError, 1>>

\* The bytes of a sequence of runes.
RECURSIVE Encode(_)
Encode(rs) == IF rs = <<>> THEN <<>> ELSE Utf8(Head(rs)) \o Encode(Tail(rs))

(***************************************************************************)
(* Regular expressions, as syntax trees.                                   *)
(***************************************************************************)
Chr(c) == [t |-> "in", s |-> {c}]
In(S) == [t |-> "in", s |-> S]
NotIn(S) == [t |-> "notin", s |-> S]
\* [\s\S], and . under (?s)
AnyChar == NotIn({})
\* . without (?s)
Dot == NotIn({"\n"})
Cat(rs) == [t |-> "cat", rs |-> rs]
Or(a, b) == [t |-> "alt", a |-> a, b |-> b]
\* x{min,max}; max = -1 is no upper limit
Rep(r, min, max, greedy) ==
    [t |-> "rep", r |-> r, min |-> min, max |-> max, greedy |-> greedy]
Star(r) == Rep(r, 0, -1, TRUE)
Plus(r) == Rep(r, 1, -1, TRUE)
Opt(r) == Rep(r, 0, 1, TRUE)
LazyStar(r) == Rep(r, 0, -1, FALSE)
LazyPlus(r) == Rep(r, 1, -1, FALSE)
\* the capturing group number n
Grp(n, r) == [t |-> "grp", n |-> n, r |-> r]
\* ^ and $ without (?m): the beginning and the end of the text
Bot == [t |-> "bot"]
Eot == [t |-> "eot"]
\* \b: an ASCII word boundary
WordBoundary == [t |-> "wb"]
Open(n) == [t |-> "open", n |-> n]
Close(n) == [t |-> "close", n |-> n]
Progress(i) == [t |-> "progress", i |-> i]

RECURSIVE Lit(_)
\* a literal string, given as its runes
Lit(rs) == IF rs = <<>> THEN <<>> ELSE <<Chr(Head(rs))>> \o Lit(Tail(rs))

NoMatch == <<>>

IsWordAt(w, i) == i >= 1 /\ i <= Len(w) /\ w[i] \in Word

(***************************************************************************)
(* The leftmost-first match of Go's regexp (the match a backtracking       *)
(* matcher finds first): k is the sequence of expressions still to match   *)
(* from the 1-based index i of w, caps the submatch offsets so far.  The   *)
(* result is the submatch offsets of the match, or NoMatch.                *)
(***************************************************************************)
RECURSIVE MatchFrom(_, _, _, _)
MatchFrom(k, w, i, caps) ==
    IF Len(k) = 0 THEN [caps EXCEPT ![2] = i - 1]
    ELSE
    LET r == Head(k)
        rest == Tail(k)
    IN
    CASE r.t = "in" ->
           IF i <= Len(w) /\ DecodeRune(w, i)[1] \in r.s
           THEN MatchFrom(rest, w, i + DecodeRune(w, i)[2], caps)
           ELSE NoMatch
      [] r.t = "notin" ->
           IF i <= Len(w) /\ DecodeRune(w, i)[1] \notin r.s
           THEN MatchFrom(rest, w, i + DecodeRune(w, i)[2], caps)
           ELSE NoMatch
      [] r.t = "cat" -> MatchFrom(r.rs \o rest, w, i, caps)
      [] r.t = "alt" ->
           LET first == MatchFrom(<<r.a>> \o rest, w, i, caps)
           IN  IF first # NoMatch THEN first
               ELSE MatchFrom(<<r.b>> \o rest, w, i, caps)
      [] r.t = "rep" ->
           IF r.min > 0
           THEN MatchFrom(<<r.r, Rep(r.r, r.min - 1,
                                     IF r.max = -1 THEN -1 ELSE r.max - 1,
                                     r.greedy)>> \o rest, w, i, caps)
           ELSE IF r.max = 0 THEN MatchFrom(rest, w, i, caps)
           ELSE
           LET more == <<r.r, Progress(i),
                         Rep(r.r, 0, IF r.max = -1 THEN -1 ELSE r.max - 1,
                             r.greedy)>> \o rest
           IN  IF r.greedy
               THEN LET again == MatchFrom(more, w, i, caps)
                    IN  IF again # NoMatch THEN again
                        ELSE MatchFrom(rest, w, i, caps)
               ELSE LET stop == MatchFrom(rest, w, i, caps)
                    IN  IF stop # NoMatch THEN stop
                        ELSE MatchFrom(more, w, i, caps)
      [] r.t = "grp" ->
           MatchFrom(<<Open(r.n), r.r, Close(r.n)>> \o rest, w, i, caps)
      [] r.t = "open" ->
           MatchFrom(rest, w, i, [caps EXCEPT ![2 * r.n + 1] = i - 1])
      [] r.t = "close" ->
           MatchFrom(rest, w, i, [caps EXCEPT ![2 * r.n + 2] = i - 1])
      [] r.t = "progress" ->
           IF i # r.i THEN MatchFrom(rest, w, i, caps) ELSE NoMatch
      [] r.t = "bot" -> IF i = 1 THEN MatchFrom(rest, w, i, caps) ELSE NoMatch
      [] r.t = "eot" ->
           IF i = Len(w) + 1 THEN MatchFrom(rest, w, i, caps) ELSE NoMatch
      [] r.t = "wb" ->
           IF IsWordAt(w, i - 1) # IsWordAt(w, i)
           THEN MatchFrom(rest, w, i, caps)
           ELSE NoMatch


\* a literal string as one expression
Str(rs) == Cat(Lit(rs))

(***************************************************************************)
(* The patterns of formatting.go, lines 35 to 62: re is the expression, n  *)
(* the number of its capturing groups.                                     *)
(***************************************************************************)
\* (?s)^(?: *>>> +(.*)| *> +([^\n]*\n?))
patternBlockQuote ==
    [n |-> 2,
     re |-> Cat(<<Bot,
                  Or(Cat(<<Star(Chr(" ")), Str(<<">", ">", ">">>),
                           Plus(Chr(" ")), Grp(1, Star(AnyChar))>>),
                     Cat(<<Star(Chr(" ")), Chr(">"), Plus(Chr(" ")),
                           Grp(2, Cat(<<Star(NotIn({"\n"})),
                                        Opt(Chr("\n"))>>))>>))>>)]

\* ^<#(\d+)>
patternChannelMention ==
    [n |-> 1,
     re |-> Cat(<<Bot, Str(<<"<", "#">>), Grp(1, Plus(In(Digit))),
                  Chr(">")>>)]

\* ^<@&(\d+)>
patternRoleMention ==
    [n |-> 1,
     re |-> Cat(<<Bot, Str(<<"<", "@", "&">>), Grp(1, Plus(In(Digit))),
                  Chr(">")>>)]

\* ^<@!?(\d+)>
patternUserMention ==
    [n |-> 1,
     re |-> Cat(<<Bot, Str(<<"<", "@">>), Opt(Chr("!")),
                  Grp(1, Plus(In(Digit))), Chr(">")>>)]

\* ^@(everyone|here)
patternSpecialMention ==
    [n |-> 1,
     re |-> Cat(<<Bot, Chr("@"),
                  Grp(1, Or(Str(<<"e", "v", "e", "r", "y", "o", "n", "e">>),
                            Str(<<"h", "e", "r", "e">>)))>>)]

\* ^<(a)?:([a-zA-Z_0-9]+):(\d+)>
patternCustomEmoji ==
    [n |-> 3,
     re |-> Cat(<<Bot, Chr("<"), Opt(Grp(1, Chr("a"))), Chr(":"),
                  Grp(2, Plus(In(Word))), Chr(":"),
                  Grp(3, Plus(In(Digit))), Chr(">")>>)]

\* ^:([^\s:]+?(?:::skin-tone-\d)?):
patternNamedEmoji ==
    [n |-> 1,
     re |-> Cat(<<Bot, Chr(":"),
                  Grp(1, Cat(<<LazyPlus(NotIn(Space \cup {":"})),
                               Opt(Cat(<<Str(<<":", ":", "s", "k", "i", "n",
                                               "-", "t", "o", "n", "e",
                                               "-">>),
                                         In(Digit)>>))>>)),
                  Chr(":")>>)]

\* ^(¯\\_\(ツ\)_/¯)
patternUnescapeEmoticon ==
    [n |-> 1,
     re |-> Cat(<<Bot,
                  Grp(1, Str(<<MACRON, "\\", "_", "(", TSU, ")", "_", "/",
                               MACRON>>))>>)]

\* ^<t:(-?\d{1,17})(?::(t|T|d|D|f|F|R))?>
patternTimestamp ==
    [n |-> 2,
     re |-> Cat(<<Bot, Str(<<"<", "t", ":">>),
                  Grp(1, Cat(<<Opt(Chr("-")), Rep(In(Digit), 1, 17, TRUE)>>)),
                  Opt(Cat(<<Chr(":"),
                            Grp(2, In({"t", "T", "d", "D", "f", "F",
                                       "R"}))>>)),
                  Chr(">")>>)]

\* https?://[^\s<]+[^<.,:;"')\]\s]
URLBody ==
    Cat(<<Str(<<"h", "t", "t", "p">>), Opt(Chr("s")), Str(<<":", "/", "/">>),
          Plus(NotIn(Space \cup {"<"})),
          NotIn(Space \cup {"<", ".", ",", ":", ";", "\"", "'", ")", "]"})>>)

\* ^(https?://[^\s<]+[^<.,:;"')\]\s])
patternURL == [n |-> 1, re |-> Cat(<<Bot, Grp(1, URLBody)>>)]

\* ^(\[(?:\[[^]]*]|[^]])*](?:[^\[]*])?)\(\s*<?((?:[^\s\\]|\\.)*?)>?
\*  (?:\s+['"]([\s\S]*?)['"])?\s*\)
patternMaskedLink ==
    [n |-> 3,
     re |-> Cat(<<Bot,
                  Grp(1, Cat(<<Chr("["),
                               Star(Or(Cat(<<Chr("["), Star(NotIn({"]"})),
                                             Chr("]")>>),
                                       NotIn({"]"}))),
                               Chr("]"),
                               Opt(Cat(<<Star(NotIn({"["})), Chr("]")>>))>>)),
                  Chr("("), Star(In(Space)), Opt(Chr("<")),
                  Grp(2, LazyStar(Or(NotIn(Space \cup {"\\"}),
                                     Cat(<<Chr("\\"), Dot>>)))),
                  Opt(Chr(">")),
                  Opt(Cat(<<Plus(In(Space)), In({"'", "\""}),
                            Grp(3, LazyStar(AnyChar)), In({"'", "\""})>>)),
                  Star(In(Space)), Chr(")")>>)]

\* ^<(https?://[^\s<]+[^<.,:;"')\]\s])>
patternURLNoEmbed ==
    [n |-> 1, re |-> Cat(<<Bot, Chr("<"), Grp(1, URLBody), Chr(">")>>)]

\* ^\x{00AD}
patternSoftHyphen == [n |-> 0, re |-> Cat(<<Bot, Chr(SHY)>>)]

\* ^\|\|([\s\S]+?)\|\|
patternSpoiler ==
    [n |-> 1,
     re |-> Cat(<<Bot, Str(<<"|", "|">>), Grp(1, LazyPlus(AnyChar)),
                  Str(<<"|", "|">>)>>)]

\* ^([^\S\r\n]*)[*-][ \s]+(.*)([\n|$])?
patternListItem ==
    [n |-> 3,
     re |-> Cat(<<Bot, Grp(1, Star(In(Space \ {"\r", "\n"}))),
                  In({"*", "-"}), Plus(In(Space)), Grp(2, Star(Dot)),
                  Opt(Grp(3, In({"\n", "|", "$"})))>>)]

\* ^(\s*(#+)[ \t](.*) *)(?:\n|$)
patternHeaderItem ==
    [n |-> 3,
     re |-> Cat(<<Bot,
                  Grp(1, Cat(<<Star(In(Space)), Grp(2, Plus(Chr("#"))),
                               In({" ", "\t"}), Grp(3, Star(Dot)),
                               Star(Chr(" "))>>)),
                  Or(Chr("\n"), Eot)>>)]

\* ^(\*\*([\s\S]+?)\*\*)(?:[^*]|$)
patternBold ==
    [n |-> 2,
     re |-> Cat(<<Bot,
                  Grp(1, Cat(<<Str(<<"*", "*">>), Grp(2, LazyPlus(AnyChar)),
                               Str(<<"*", "*">>)>>)),
                  Or(NotIn({"*"}), Eot)>>)]

\* ^(__([\s\S]+?)__)(?:[^_]|$)
patternUnderline ==
    [n |-> 2,
     re |-> Cat(<<Bot,
                  Grp(1, Cat(<<Str(<<"_", "_">>), Grp(2, LazyPlus(AnyChar)),
                               Str(<<"_", "_">>)>>)),
                  Or(NotIn({"_"}), Eot)>>)]

\* ^~~(\S|\S[\s\S]*?\S)~~
patternStrikethrough ==
    [n |-> 1,
     re |-> Cat(<<Bot, Str(<<"~", "~">>),
                  Grp(1, Or(NotIn(Space),
                            Cat(<<NotIn(Space), LazyStar(AnyChar),
                                  NotIn(Space)>>))),
                  Str(<<"~", "~">>)>>)]

\* ^(?:\n *)*\n
patternNewline ==
    [n |-> 0,
     re |-> Cat(<<Bot, Star(Cat(<<Chr("\n"), Star(Chr(" "))>>)),
                  Chr("\n")>>)]

\* patternText without its last alternative, the end of the text
patternTextNoEnd ==
    [n |-> 1,
     re |-> Cat(<<Bot, Grp(1, LazyPlus(AnyChar)),
                  Or(NotIn(Alnum \cup Space \cup HighRunes),
                  Or(Chr("\n"),
                  Or(Cat(<<Rep(Chr(" "), 2, -1, TRUE), Chr("\n")>>),
                     Cat(<<Plus(In(Word)), Chr(":"), NotIn(Space)>>))))>>)]

\* patternText without the \s of its character class: a space ends the text
patternTextSpaceEnds ==
    [n |-> 1,
     re |-> Cat(<<Bot, Grp(1, LazyPlus(AnyChar)),
                  Or(NotIn(Alnum \cup HighRunes),
                  Or(Chr("\n"),
                  Or(Cat(<<Rep(Chr(" "), 2, -1, TRUE), Chr("\n")>>),
                  Or(Cat(<<Plus(In(Word)), Chr(":"), NotIn(Space)>>),
                     Eot))))>>)]

\* ^([\s\S]+?)(?:[^0-9A-Za-z\s\x{00c0}-\x{ffff}]|\n| {2,}\n|\w+:\S|$)
patternText ==
    [n |-> 1,
     re |-> Cat(<<Bot, Grp(1, LazyPlus(AnyChar)),
                  Or(NotIn(Alnum \cup Space \cup HighRunes),
                  Or(Chr("\n"),
                  Or(Cat(<<Rep(Chr(" "), 2, -1, TRUE), Chr("\n")>>),
                  Or(Cat(<<Plus(In(Word)), Chr(":"), NotIn(Space)>>),
                     Eot))))>>)]

\* ^\\([^0-9A-Za-z\s])
patternEscape ==
    [n |-> 1,
     re |-> Cat(<<Bot, Chr("\\"), Grp(1, NotIn(Alnum \cup Space))>>)]

\* ^(\b_((?:__|\\[\s\S]|[^\\_])+?)_\b)|
\* ^(\*((?:\*\*|[^\s*])(?:\*\*|\s+(?:[^*\s]|\*\*)|[^\s*])*?)\*)(?:[^*]|$)
patternItalics ==
    [n |-> 4,
     re |-> Or(Cat(<<Bot,
                     Grp(1, Cat(<<WordBoundary, Chr("_"),
                                  Grp(2, LazyPlus(
                                      Or(Str(<<"_", "_">>),
                                      Or(Cat(<<Chr("\\"), AnyChar>>),
                                         NotIn({"\\", "_"}))))),
                                  Chr("_"), WordBoundary>>))>>),
               Cat(<<Bot,
                     Grp(3, Cat(<<Chr("*"),
                                  Grp(4, Cat(<<
                                      Or(Str(<<"*", "*">>),
                                         NotIn(Space \cup {"*"})),
                                      LazyStar(
                                        Or(Str(<<"*", "*">>),
                                        Or(Cat(<<Plus(In(Space)),
                                                 Or(NotIn(Space \cup {"*"}),
                                                    Str(<<"*", "*">>))>>),
                                           NotIn(Space \cup {"*"}))))>>)),
                                  Chr("*")>>)),
                     Or(NotIn({"*"}), Eot)>>))]

\* (?s)^BBB(?:([\w+\-.]+?)?(\s*\n))?([^\n].*?)\n*BBB, B the backquote BQ
patternCodeBlock ==
    [n |-> 3,
     re |-> Cat(<<Bot, Str(<<BQ, BQ, BQ>>),
                  Opt(Cat(<<Opt(Grp(1, LazyPlus(In(Word \cup
                                                   {"+", "-", "."})))),
                            Grp(2, Cat(<<Star(In(Space)), Chr("\n")>>))>>)),
                  Grp(3, Cat(<<NotIn({"\n"}), LazyStar(AnyChar)>>)),
                  Star(Chr("\n")), Str(<<BQ, BQ, BQ>>)>>)]

\* (?s)^BB([^B]*)BB|^B([^B]*)B, B the backquote BQ
patternCodeInline ==
    [n |-> 2,
     re |-> Or(Cat(<<Bot, Str(<<BQ, BQ>>), Grp(1, Star(NotIn({BQ}))),
                     Str(<<BQ, BQ>>)>>),
               Cat(<<Bot, Chr(BQ), Grp(2, Star(NotIn({BQ}))),
                     Chr(BQ)>>))]

(***************************************************************************)
(* regexp.FindStringSubmatchIndex: the offsets <<s0, e0, s1, e1, ...>> of  *)
(* the leftmost match and of its groups (-1 for a group that did not take  *)
(* part), 0-based in w, or NoMatch.  Every pattern above starts each of    *)
(* its top-level alternatives with ^, so a match can only start at offset  *)
(* 0, and that is the one start tried.                                     *)
(***************************************************************************)
FindStringSubmatchIndex(pattern, w) ==
    MatchFrom(<<pattern.re>>, w, 1,
              [j \in 1..(2 * pattern.n + 2) |-> IF j = 1 THEN 0 ELSE -1])

\* match.group, match.start, match.end (lines 285 to 300); groups is 1-based
\* here, so that groups[k] of the code is groups[k + 1]
group(m, i) ==
    LET start == m.groups[i * 2 + 1]
    IN  IF start = -1 THEN <<>>
        ELSE SubSeq(m.match, start + 1, m.groups[i * 2 + 2])
start(m, i) == m.groups[i * 2 + 1]
end(m, i) == m.groups[i * 2 + 2]

(***************************************************************************)
(* The rule table.  A rule names its pattern; the pattern and the parser   *)
(* function of the rule are looked up by that name.                        *)
(***************************************************************************)
Pattern(name) ==
    CASE name = "patternSoftHyphen" -> patternSoftHyphen
      [] name = "patternEscape" -> patternEscape
      [] name = "patternBlockQuote" -> patternBlockQuote
      [] name = "patternCodeBlock" -> patternCodeBlock
      [] name = "patternCodeInline" -> patternCodeInline
      [] name = "patternSpoiler" -> patternSpoiler
      [] name = "patternMaskedLink" -> patternMaskedLink
      [] name = "patternURLNoEmbed" -> patternURLNoEmbed
      [] name = "patternURL" -> patternURL
      [] name = "patternCustomEmoji" -> patternCustomEmoji
      [] name = "patternNamedEmoji" -> patternNamedEmoji
      [] name = "patternUnescapeEmoticon" -> patternUnescapeEmoticon
      [] name = "patternChannelMention" -> patternChannelMention
      [] name = "patternRoleMention" -> patternRoleMention
      [] name = "patternUserMention" -> patternUserMention
      [] name = "patternSpecialMention" -> patternSpecialMention
      [] name = "patternTimestamp" -> patternTimestamp
      [] name = "patternHeaderItem" -> patternHeaderItem
      [] name = "patternListItem" -> patternListItem
      [] name = "patternNewline" -> patternNewline
      [] name = "patternBold" -> patternBold
      [] name = "patternUnderline" -> patternUnderline
      [] name = "patternItalics" -> patternItalics
      [] name = "patternStrikethrough" -> patternStrikethrough
      [] name = "patternText" -> patternText

\* a rule that sets neither block nor blockQuote
Rule(name) == [pattern |-> name, block |-> FALSE, blockQuote |-> FALSE]
BlockRule(name) == [pattern |-> name, block |-> TRUE, blockQuote |-> FALSE]

\* a parseSpec whose start, end and matchEnd are left at their zero value
Leaf(node) == [node |-> node, start |-> 0, end |-> 0, matchEnd |-> 0]

\* The parser functions of the rules, in the order of NewParser.
parserSoftHyphen(m) == Leaf([kind |-> "TextNode", Content |-> <<>>])

\* parserEscape with the whole match as the content
parserEscapeWhole(m) == Leaf([kind |-> "TextNode", Content |-> group(m, 0)])

parserEscape(m) == Leaf([kind |-> "TextNode", Content |-> group(m, 1)])

parserBlockQuote(m) ==
    LET i == IF Len(group(m, 1)) > 0 THEN 1 ELSE 2
    IN  [node |-> [kind |-> "BlockQuoteNode"],
         start |-> start(m, i), end |-> end(m, i), matchEnd |-> 0]

parserCodeBlock(m) ==
    Leaf([kind |-> "CodeNode", Content |-> group(m, 3),
          Language |-> group(m, 1)])

parserCodeInline(m) ==
    LET i == IF Len(group(m, 2)) > 0 THEN 2 ELSE 1
    IN  Leaf([kind |-> "CodeNode", Content |-> group(m, i),
              Language |-> <<>>])

parserSpoiler(m) ==
    [node |-> [kind |-> "SpoilerNode"],
     start |-> start(m, 1), end |-> end(m, 1), matchEnd |-> 0]

parserMaskedLink(m) ==
    LET mask == group(m, 1)
    IN  Leaf([kind |-> "URLNode", URL |-> group(m, 2),
              Mask |-> SubSeq(mask, 2, Len(mask) - 1)])

parserURLNoEmbed(m) ==
    Leaf([kind |-> "URLNode", URL |-> group(m, 1), Mask |-> <<>>])

parserURL(m) ==
    Leaf([kind |-> "URLNode", URL |-> group(m, 1), Mask |-> <<>>])

parserCustomEmoji(m) ==
    Leaf([kind |-> "EmojiNode", Animated |-> Len(group(m, 1)) > 0,
          Text |-> group(m, 2), ID |-> group(m, 3)])

parserNamedEmoji(m) == Leaf([kind |-> "TextNode", Content |-> group(m, 0)])

parserUnescapeEmoticon(m) ==
    Leaf([kind |-> "TextNode", Content |-> group(m, 1)])

parserChannelMention(m) ==
    Leaf([kind |-> "ChannelMentionNode", ID |-> group(m, 1)])

parserRoleMention(m) ==
    Leaf([kind |-> "RoleMentionNode", ID |-> group(m, 1)])

parserUserMention(m) ==
    Leaf([kind |-> "UserMentionNode", ID |-> group(m, 1)])

parserSpecialMention(m) ==
    Leaf([kind |-> "SpecialMentionNode", Mention |-> group(m, 1)])

parserTimestamp(m) ==
    Leaf([kind |-> "TimestampNode", Stamp |-> group(m, 1),
          Suffix |-> group(m, 2)])

parserHeaderItem(m) ==
    LET n == IF Len(group(m, 2)) > 0 THEN Len(group(m, 2)) ELSE 1
    IN  [node |-> [kind |-> "HeaderNode", Level |-> n],
         start |-> start(m, 3), end |-> end(m, 3), matchEnd |-> end(m, 1)]

parserListItem(m) ==
    LET level == IF Len(group(m, 1)) > 0 THEN 2 ELSE 1
    IN  [node |-> [kind |-> "BulletListNode", NestedLevel |-> level,
                   IncludesNewline |-> Len(group(m, 3)) > 0],
         start |-> start(m, 2), end |-> end(m, 2), matchEnd |-> 0]

parserNewline(m) == Leaf([kind |-> "TextNode", Content |-> <<"\n">>])

parserBold(m) ==
    [node |-> [kind |-> "BoldNode"],
     start |-> start(m, 2), end |-> end(m, 2), matchEnd |-> end(m, 1)]

parserUnderline(m) ==
    [node |-> [kind |-> "UnderlineNode"],
     start |-> start(m, 2), end |-> end(m, 2), matchEnd |-> end(m, 1)]

parserItalics(m) ==
    LET content == IF Len(group(m, 4)) > 0 THEN 4 ELSE 2
        total == IF Len(group(m, 3)) > 0 THEN 3 ELSE 1
    IN  [node |-> [kind |-> "ItalicsNode"],
         start |-> start(m, content), end |-> end(m, content),
         matchEnd |-> end(m, total)]

parserStrikethrough(m) ==
    [node |-> [kind |-> "StrikethroughNode"],
     start |-> start(m, 1), end |-> end(m, 1), matchEnd |-> 0]

parserText(m) ==
    [node |-> [kind |-> "TextNode", Content |-> group(m, 1)],
     start |-> 0, end |-> 0, matchEnd |-> end(m, 1)]

\* rule.parser(match) of line 709
RuleParser(rule, m) ==
    CASE rule.pattern = "patternSoftHyphen" -> parserSoftHyphen(m)
      [] rule.pattern = "patternEscape" -> parserEscape(m)
      [] rule.pattern = "patternBlockQuote" -> parserBlockQuote(m)
      [] rule.pattern = "patternCodeBlock" -> parserCodeBlock(m)
      [] rule.pattern = "patternCodeInline" -> parserCodeInline(m)
      [] rule.pattern = "patternSpoiler" -> parserSpoiler(m)
      [] rule.pattern = "patternMaskedLink" -> parserMaskedLink(m)
      [] rule.pattern = "patternURLNoEmbed" -> parserURLNoEmbed(m)
      [] rule.pattern = "patternURL" -> parserURL(m)
      [] rule.pattern = "patternCustomEmoji" -> parserCustomEmoji(m)
      [] rule.pattern = "patternNamedEmoji" -> parserNamedEmoji(m)
      [] rule.pattern = "patternUnescapeEmoticon" -> parserUnescapeEmoticon(m)
      [] rule.pattern = "patternChannelMention" -> parserChannelMention(m)
      [] rule.pattern = "patternRoleMention" -> parserRoleMention(m)
      [] rule.pattern = "patternUserMention" -> parserUserMention(m)
      [] rule.pattern = "patternSpecialMention" -> parserSpecialMention(m)
      [] rule.pattern = "patternTimestamp" -> parserTimestamp(m)
      [] rule.pattern = "patternHeaderItem" -> parserHeaderItem(m)
      [] rule.pattern = "patternListItem" -> parserListItem(m)
      [] rule.pattern = "patternNewline" -> parserNewline(m)
      [] rule.pattern = "patternBold" -> parserBold(m)
      [] rule.pattern = "patternUnderline" -> parserUnderline(m)
      [] rule.pattern = "patternItalics" -> parserItalics(m)
      [] rule.pattern = "patternStrikethrough" -> parserStrikethrough(m)
      [] rule.pattern = "patternText" -> parserText(m)

(***************************************************************************)
(* ParserOptions and NewParser.  A *ParserOptions is a sequence: <<>> is   *)
(* nil, <<o>> points to the options o.                                     *)
(***************************************************************************)
DefaultParserOptions ==
    [EnableBlockQuote |-> TRUE, EnableMaskedLinks |-> FALSE,
     EnableMentions |-> TRUE, EnableForumMarkdown |-> FALSE]

When(cond, rules) == IF cond THEN rules ELSE <<>>

\* lines 338 to 653: the rules appended for the options o
RuleTable(o) ==
        [rules |->
            <<Rule("patternSoftHyphen"), Rule("patternEscape")>>
         \o When(o.EnableBlockQuote,
                 <<[pattern |-> "patternBlockQuote", block |-> TRUE,
                    blockQuote |-> TRUE]>>)
         \o <<Rule("patternCodeBlock"), Rule("patternCodeInline"),
              Rule("patternSpoiler")>>
         \o When(o.EnableMaskedLinks, <<Rule("patternMaskedLink")>>)
         \o <<Rule("patternURLNoEmbed"), Rule("patternURL"),
              Rule("patternCustomEmoji"), Rule("patternNamedEmoji"),
              Rule("patternUnescapeEmoticon")>>
         \o When(o.EnableMentions,
                 <<Rule("patternChannelMention"), Rule("patternRoleMention"),
                   Rule("patternUserMention"),
                   Rule("patternSpecialMention")>>)
         \o <<Rule("patternTimestamp")>>
         \o When(o.EnableForumMarkdown,
                 <<BlockRule("patternHeaderItem"), Rule("patternListItem")>>)
         \o <<BlockRule("patternNewline"), Rule("patternBold"),
              Rule("patternUnderline"), Rule("patternItalics"),
              Rule("patternStrikethrough"), Rule("patternText")>>]

\* NewParser where nil stands for the empty ParserOptions
NewParserNilEmpty(options) ==
    RuleTable(IF options = <<>>
              THEN [EnableBlockQuote |-> FALSE, EnableMaskedLinks |-> FALSE,
                    EnableMentions |-> FALSE, EnableForumMarkdown |-> FALSE]
              ELSE options[1])

\* lines 334 to 337 and 651 to 653: nil stands for DefaultParserOptions
NewParser(options) ==
    RuleTable(IF options = <<>> THEN DefaultParserOptions ELSE options[1])

(***************************************************************************)
(* Parser.Parse.  The nodes a call creates are kept in creation order in   *)
(* the sequence nodes: the node number k is nodes[k], and 0 is the root,   *)
(* topLevelRootNode.  An entry holds the Node value and the node it was    *)
(* added to as a child (addChild appends, so the children of a node are    *)
(* its entries in creation order), and records, for the properties below,  *)
(* the rule that created it (its index in the table), the source range     *)
(* [from, to) of its full match, and the child span pushed for it.         *)
(***************************************************************************)
Root == 0

\* SkipBlock without the check of line 691
SkipBlockNever(r, lastCapt) == FALSE

\* line 691: a block rule is skipped unless lastCapture is empty or ends
\* with a newline
SkipBlock(r, lastCapt) ==
    r.block /\ lastCapt # <<>> /\ lastCapt[Len(lastCapt)] # "\n"

\* SkipBlockQuote without the check of line 694
SkipBlockQuoteNever(r, builderStart, bqEnd) == FALSE

\* line 694: the block quote rule is skipped before blockQuoteEnd
SkipBlockQuote(r, builderStart, bqEnd) ==
    r.blockQuote /\ builderStart < bqEnd

\* FindRule without the break of line 703: the last rule that is not
\* skipped and matches
RECURSIVE FindRuleNoBreak(_, _, _, _, _, _)
FindRuleNoBreak(rules, i, lastCapt, builderStart, bqEnd, inspectionSource) ==
    IF i > Len(rules) THEN [rule |-> 0, groups |-> <<>>]
    ELSE LET later == FindRuleNoBreak(rules, i + 1, lastCapt, builderStart,
                                      bqEnd, inspectionSource)
             g == FindStringSubmatchIndex(Pattern(rules[i].pattern),
                                          inspectionSource)
         IN  IF later.rule # 0 THEN later
             ELSE IF \/ SkipBlock(rules[i], lastCapt)
                     \/ SkipBlockQuote(rules[i], builderStart, bqEnd)
                     \/ g = NoMatch
             THEN later
             ELSE [rule |-> i, groups |-> g]

\* lines 688 to 704: the first rule from index i on that is not skipped and
\* whose pattern matches; rule = 0 when there is none
RECURSIVE FindRule(_, _, _, _, _, _)
FindRule(rules, i, lastCapt, builderStart, bqEnd, inspectionSource) ==
    IF i > Len(rules) THEN [rule |-> 0, groups |-> <<>>]
    ELSE IF SkipBlock(rules[i], lastCapt)
    THEN FindRule(rules, i + 1, lastCapt, builderStart, bqEnd,
                  inspectionSource)
    ELSE IF SkipBlockQuote(rules[i], builderStart, bqEnd)
    THEN FindRule(rules, i + 1, lastCapt, builderStart, bqEnd,
                  inspectionSource)
    ELSE LET g == FindStringSubmatchIndex(Pattern(rules[i].pattern),
                                          inspectionSource)
         IN  IF g = NoMatch
             THEN FindRule(rules, i + 1, lastCapt, builderStart, bqEnd,
                           inspectionSource)
             ELSE [rule |-> i, groups |-> g]

\* PushSpans with the two appends in the other order
PushSpansChildFirst(stack, sibling, child) == stack \o child \o sibling

\* lines 721 to 733: the sibling continuation is appended first, the span of
\* the new node after it, so that the new node's span is popped first
PushSpans(stack, sibling, child) == stack \o sibling \o child

NoStep ==
    [rule |-> 0, start |-> 0, end |-> 0, lastCapture |-> <<>>,
     blockQuoteEnd |-> 0]

\* lines 664 to 677: the locals of a call, before the loop
ParseLocals(src) ==
    [remainingParses |->
        IF Len(src) > 0
        THEN <<[node |-> Root, matchEnd |-> 0, start |-> 0,
                end |-> Len(src)]>>
        ELSE <<>>,
     nodes |-> <<>>,
     lastCapture |-> <<>>,
     blockQuoteEnd |-> 0,
     last |-> NoStep,
     pc |-> IF Len(src) > 0 THEN "loop" ELSE "return"]

\* lines 679 to 739: one iteration of the loop, on the locals st of a call
\* whose remainingParses is not empty.  pc is "loop" while the condition of
\* line 679 holds, "return" once the loop has ended or was left by the break
\* of line 683, "panic" after the panic of line 706.
Iteration(rules, src, st) ==
    LET depth == Len(st.remainingParses)
        builder == st.remainingParses[depth]
        popped == SubSeq(st.remainingParses, 1, depth - 1)
    IN
    IF builder.start >= builder.end
    THEN [st EXCEPT !.remainingParses = popped, !.last = NoStep,
                    !.pc = "return"]
    ELSE
    LET inspectionSource == SubSeq(src, builder.start + 1, builder.end)
        offset == builder.start
        found == FindRule(rules, 1, st.lastCapture, builder.start,
                          st.blockQuoteEnd, inspectionSource)
    IN
    IF found.rule = 0
    THEN [st EXCEPT !.remainingParses = popped, !.last = NoStep,
                    !.pc = "panic"]
    ELSE
    LET rule == rules[found.rule]
        groups == found.groups
        newBuilder == RuleParser(rule, [match |-> inspectionSource,
                                        groups |-> groups])
        matchEnd == IF newBuilder.matchEnd = 0 THEN groups[2]
                    ELSE newBuilder.matchEnd
        id == Len(st.nodes) + 1
        matcherSourceEnd == matchEnd + offset
        sibling == IF matcherSourceEnd # builder.end
                   THEN <<[node |-> builder.node, matchEnd |-> 0,
                           start |-> matcherSourceEnd,
                           end |-> builder.end]>>
                   ELSE <<>>
        recurse == newBuilder.start # 0 \/ newBuilder.end # 0
        newStart == IF recurse THEN newBuilder.start + offset
                    ELSE newBuilder.start
        newEnd == IF recurse THEN newBuilder.end + offset
                  ELSE newBuilder.end
        child == IF recurse
                 THEN <<[node |-> id, matchEnd |-> matchEnd,
                         start |-> newStart, end |-> newEnd]>>
                 ELSE <<>>
    IN  [remainingParses |-> PushSpans(popped, sibling, child),
         nodes |-> Append(st.nodes,
                          [node |-> newBuilder.node, parent |-> builder.node,
                           rule |-> found.rule, from |-> offset,
                           to |-> matcherSourceEnd, recurse |-> recurse,
                           start |-> newStart, end |-> newEnd]),
         lastCapture |-> SubSeq(inspectionSource, 1, matchEnd),
         blockQuoteEnd |-> IF rule.blockQuote THEN newEnd
                           ELSE st.blockQuoteEnd,
         last |-> [rule |-> found.rule, start |-> builder.start,
                   end |-> builder.end, lastCapture |-> st.lastCapture,
                   blockQuoteEnd |-> st.blockQuoteEnd],
         pc |-> IF PushSpans(popped, sibling, child) = <<>> THEN "return"
                ELSE "loop"]

\* The whole loop, from the locals st: the locals when Parse returns or
\* panics.
RECURSIVE RunLoop(_, _, _)
RunLoop(rules, src, st) ==
    IF st.pc # "loop" THEN st
    ELSE RunLoop(rules, src, Iteration(rules, src, st))

\* Parse(source) on its own: the nodes of the tree it returns
ParseAlone(parser, src) == RunLoop(parser.rules, src, ParseLocals(src)).nodes

(***************************************************************************)
(* The state: the options handed to NewParser, the Parser it returned      *)
(* (none before the call: p is <<>>), and, for every call of Parse on that *)
(* Parser, its argument and its locals.  last records, for the properties, *)
(* what the latest iteration of the call looked at: the rule it applied    *)
(* and the popped span, lastCapture and blockQuoteEnd it started with.     *)
(***************************************************************************)
VARIABLES options, p, source, pc, remainingParses, nodes, lastCapture,
          blockQuoteEnd, last

vars == <<options, p, source, pc, remainingParses, nodes, lastCapture,
          blockQuoteEnd, last>>

Calls == DOMAIN pc

\* Locals with lastCapture kept in the Parser instead: every call reads the
\* one of the first call
LocalsShared(c) ==
    [remainingParses |-> remainingParses[c], nodes |-> nodes[c],
     lastCapture |-> lastCapture[1], blockQuoteEnd |-> blockQuoteEnd[c],
     last |-> last[c], pc |-> pc[c]]

\* the locals of the call c
Locals(c) ==
    [remainingParses |-> remainingParses[c], nodes |-> nodes[c],
     lastCapture |-> lastCapture[c], blockQuoteEnd |-> blockQuoteEnd[c],
     last |-> last[c], pc |-> pc[c]]

SetLocals(c, st) ==
    /\ remainingParses' = [remainingParses EXCEPT ![c] = st.remainingParses]
    /\ nodes' = [nodes EXCEPT ![c] = st.nodes]
    /\ lastCapture' = [lastCapture EXCEPT ![c] = st.lastCapture]
    /\ blockQuoteEnd' = [blockQuoteEnd EXCEPT ![c] = st.blockQuoteEnd]
    /\ last' = [last EXCEPT ![c] = st.last]
    /\ pc' = [pc EXCEPT ![c] = st.pc]

\* every string of at most n runes of the alphabet, as bytes
Strings(alphabet, n) ==
    {Encode(rs) : rs \in UNION {[1..k -> alphabet] : k \in 0..n}}

InitWith(optionSet, sourceSet, calls) ==
    /\ options \in optionSet
    /\ p = <<>>
    /\ source \in [calls -> sourceSet]
    /\ pc = [c \in calls |-> "call"]
    /\ remainingParses = [c \in calls |-> <<>>]
    /\ nodes = [c \in calls |-> <<>>]
    /\ lastCapture = [c \in calls |-> <<>>]
    /\ blockQuoteEnd = [c \in calls |-> 0]
    /\ last = [c \in calls |-> NoStep]

\* p := NewParser(options)
NewParserCall ==
    /\ p = <<>>
    /\ p' = <<NewParser(options)>>
    /\ UNCHANGED <<options, source, pc, remainingParses, nodes, lastCapture,
                   blockQuoteEnd, last>>

\* p.Parse(source[c]) is called: lines 664 to 677
ParseCall(c) ==
    /\ p # <<>>
    /\ pc[c] = "call"
    /\ SetLocals(c, ParseLocals(source[c]))
    /\ UNCHANGED <<options, p, source>>

\* one iteration of the loop of lines 679 to 739
LoopIteration(c) ==
    /\ pc[c] = "loop"
    /\ SetLocals(c, Iteration(p[1].rules, source[c], Locals(c)))
    /\ UNCHANGED <<options, p, source>>

\* line 741: Parse returns topLevelRootNode
Return(c) ==
    /\ pc[c] = "return"
    /\ pc' = [pc EXCEPT ![c] = "done"]
    /\ UNCHANGED <<options, p, source, remainingParses, nodes, lastCapture,
                   blockQuoteEnd, last>>

Next ==
    \/ NewParserCall
    \/ \E c \in Calls : ParseCall(c)
    \/ \E c \in Calls : LoopIteration(c)
    \/ \E c \in Calls : Return(c)

(***************************************************************************)
(* The specifications.  Each has one Parser and differs from the others in *)
(* the options, the sources and the number of calls it starts with.        *)
(***************************************************************************)
\* the options of TestFormatting: everything enabled
TestOptions ==
    [EnableBlockQuote |-> TRUE, EnableMaskedLinks |-> TRUE,
     EnableMentions |-> TRUE, EnableForumMarkdown |-> TRUE]

\* the empty ParserOptions{}
EmptyOptions ==
    [EnableBlockQuote |-> FALSE, EnableMaskedLinks |-> FALSE,
     EnableMentions |-> FALSE, EnableForumMarkdown |-> FALSE]

\* nil and a pointer to every ParserOptions value
AllOptions ==
    {<<>>} \cup
    {<<o>> : o \in [EnableBlockQuote : BOOLEAN, EnableMaskedLinks : BOOLEAN,
                    EnableMentions : BOOLEAN, EnableForumMarkdown : BOOLEAN]}

\* the longest source of Spec, in runes
MaxLen == 4
MainAlphabet == {"a", " ", "\n", ">", "#", "*"}

\* One call of Parse, on every source of at most MaxLen runes of
\* MainAlphabet, by a Parser made from nil or from the options of the tests.
Init == InitWith({<<>>, <<TestOptions>>}, Strings(MainAlphabet, MaxLen), {1})
Spec == Init /\ [][Next]_vars

\* Block quotes: sources of at most QuoteLen runes of QuoteAlphabet.
QuoteLen == 5
QuoteAlphabet == {"a", " ", "\n", ">"}
InitQuote ==
    InitWith({<<>>, <<TestOptions>>}, Strings(QuoteAlphabet, QuoteLen), {1})
SpecQuote == InitQuote /\ [][Next]_vars

\* Every configuration: sources of at most OptLen runes of OptAlphabet.
OptLen == 3
OptAlphabet == {"a", " ", "\n", ">", "#"}
InitOptions == InitWith(AllOptions, Strings(OptAlphabet, OptLen), {1})
SpecOptions == InitOptions /\ [][Next]_vars

\* Escapes: a backslash, one rune of EscapeRunes, and at most EscapeTail
\* runes of EscapeTailAlphabet.  EscapeRunes holds the ASCII punctuation,
\* three multi-byte runes, and a letter, a digit, a space and a newline.
EscapeTail == 3
EscapeTailAlphabet == {"a", "*", "\\"}
Punctuation ==
    {"!", "\"", "#", "$", "%", "&", "'", "(", ")", "*", "+", ",", "-", ".",
     "/", ":", ";", "<", "=", ">", "?", "@", "[", "\\", "]", "^", "_", BQ,
     "{", "|", "}", "~"}
EscapeRunes == Punctuation \cup MultiByte \cup {"a", "1", " ", "\n"}
EscapeSources ==
    {<<"\\">> \o Utf8(c) \o tail :
        c \in EscapeRunes, tail \in Strings(EscapeTailAlphabet, EscapeTail)}
InitEscape == InitWith({<<>>, <<TestOptions>>}, EscapeSources, {1})
SpecEscape == InitEscape /\ [][Next]_vars

\* Plain text: sources of at most PlainLen runes of PlainAlphabet, which
\* holds letters, a digit and the space, and one character that is neither.
PlainLen == 4
PlainAlphabet == {"a", "Z", "0", " ", "*"}
InitPlain ==
    InitWith({<<>>, <<TestOptions>>}, Strings(PlainAlphabet, PlainLen), {1})
SpecPlain == InitPlain /\ [][Next]_vars

\* Two calls of Parse on the same Parser, their iterations interleaved in
\* every order, on sources of at most ConcLen runes of ConcAlphabet.
ConcLen == 3
ConcAlphabet == {"a", "\n"}
InitConc == InitWith({<<>>}, Strings(ConcAlphabet, ConcLen), {1, 2})
SpecConc == InitConc /\ [][Next]_vars

(***************************************************************************)
(* What the properties read of a call.                                     *)
(***************************************************************************)
\* node.Children (lines 97 to 102): the numbers of the nodes added to the
\* node number id, in the order addChild appended them
RECURSIVE ChildrenFrom(_, _, _)
ChildrenFrom(ns, id, k) ==
    IF k > Len(ns) THEN <<>>
    ELSE (IF ns[k].parent = id THEN <<k>> ELSE <<>>)
         \o ChildrenFrom(ns, id, k + 1)
Children(ns, id) == ChildrenFrom(ns, id, 1)

\* the Node values and the shape of a tree, without the recorded offsets
TreeOf(ns) == [k \in 1..Len(ns) |-> [node |-> ns[k].node,
                                     parent |-> ns[k].parent]]

\* the rule table of the Parser
Rules == p[1].rules

\* the window the latest iteration of the call c matched its rules against
Window(c) == SubSeq(source[c], last[c].start + 1, last[c].end)

\* the rule number j matches a prefix of the window w
Matches(j, w) ==
    FindStringSubmatchIndex(Pattern(Rules[j].pattern), w) # NoMatch

\* the length of the prefix of w the rule number j matches
MatchLen(j, w) == FindStringSubmatchIndex(Pattern(Rules[j].pattern), w)[2]

\* the full-match ranges of the nodes kids, in order, cover [a, b) with no
\* gap: nothing when the span is empty
Covers(ns, kids, a, b) ==
    IF a >= b THEN kids = <<>>
    ELSE /\ kids # <<>>
         /\ ns[kids[1]].from = a
         /\ ns[kids[Len(kids)]].to = b
         /\ \A i \in 1..(Len(kids) - 1) : ns[kids[i]].to = ns[kids[i + 1]].from

\* the node number k of ns is a descendant of the node number a
RECURSIVE IsDescendant(_, _, _)
IsDescendant(ns, k, a) ==
    /\ k # Root
    /\ \/ ns[k].parent = a
       \/ IsDescendant(ns, ns[k].parent, a)

(***************************************************************************)
(* C1.  When Parse returns, the full matches of the children of the root   *)
(* cover the whole source with no gap, and the full matches of the         *)
(* children of every node that was given a child span cover that span:     *)
(* nothing of the input is left unparsed.  The break of line 683 makes     *)
(* this fail: it leaves the loop with spans still pending.                 *)
(***************************************************************************)
C1_NothingLeftUnparsed ==
    \A c \in Calls :
        pc[c] = "done" =>
            /\ Covers(nodes[c], Children(nodes[c], Root), 0, Len(source[c]))
            /\ \A k \in 1..Len(nodes[c]) :
                   nodes[c][k].recurse =>
                       Covers(nodes[c], Children(nodes[c], k),
                              nodes[c][k].start, nodes[c][k].end)

(***************************************************************************)
(* C2.  Parse never panics, whatever the source and the options: as long   *)
(* as a span is pending the text pattern, the last rule of every table,    *)
(* matches the window on top of the stack; and Parse of the empty source   *)
(* returns a root without children.                                        *)
(***************************************************************************)
C2_NeverPanics ==
    \A c \in Calls :
        /\ pc[c] # "panic"
        /\ p # <<>> => Rules[Len(Rules)].pattern = "patternText"
        /\ pc[c] = "loop" =>
               LET top == remainingParses[c][Len(remainingParses[c])]
               IN  top.start < top.end =>
                       FindStringSubmatchIndex(
                           patternText,
                           SubSeq(source[c], top.start + 1, top.end))
                       # NoMatch
        /\ pc[c] = "done" /\ source[c] = <<>> => nodes[c] = <<>>

\* Parse has returned a tree for a source on which only the text rule
\* matched.
C2_Witness ==
    \E c \in Calls :
        /\ pc[c] = "done"
        /\ source[c] # <<>>
        /\ nodes[c] # <<>>
        /\ \A k \in 1..Len(nodes[c]) : nodes[c][k].rule = Len(Rules)
        /\ \A j \in 1..(Len(Rules) - 1) : ~Matches(j, source[c])

(***************************************************************************)
(* C3.  The rule an iteration applies is the first rule of the table that  *)
(* is not skipped and matches a prefix of the window: it is not skipped    *)
(* and matches, and every rule before it is skipped or does not match.     *)
(***************************************************************************)
C3_FirstEligibleRule ==
    \A c \in Calls :
        last[c].rule # 0 =>
            LET skipped(j) ==
                    \/ SkipBlock(Rules[j], last[c].lastCapture)
                    \/ SkipBlockQuote(Rules[j], last[c].start,
                                      last[c].blockQuoteEnd)
            IN  /\ ~skipped(last[c].rule)
                /\ Matches(last[c].rule, Window(c))
                /\ nodes[c][Len(nodes[c])].rule = last[c].rule
                /\ \A j \in 1..(last[c].rule - 1) :
                       skipped(j) \/ ~Matches(j, Window(c))

\* The rule applied matches a shorter prefix than a later rule that is not
\* skipped either.
C3_Witness ==
    \E c \in Calls :
        /\ last[c].rule # 0
        /\ \E j \in (last[c].rule + 1)..Len(Rules) :
               /\ ~SkipBlock(Rules[j], last[c].lastCapture)
               /\ ~SkipBlockQuote(Rules[j], last[c].start,
                                  last[c].blockQuoteEnd)
               /\ Matches(j, Window(c))
               /\ MatchLen(j, Window(c)) > MatchLen(last[c].rule, Window(c))

(***************************************************************************)
(* C4.  No BlockQuote node has a BlockQuote node among its descendants,    *)
(* and an iteration whose popped span starts before the recorded end of    *)
(* the block quote region does not apply the block quote rule.             *)
(***************************************************************************)
C4_BlockQuoteFlattening ==
    \A c \in Calls :
        /\ \A a, k \in 1..Len(nodes[c]) :
               /\ nodes[c][a].node.kind = "BlockQuoteNode"
               /\ nodes[c][k].node.kind = "BlockQuoteNode"
               => ~IsDescendant(nodes[c], k, a)
        /\ last[c].rule # 0 /\ last[c].start < last[c].blockQuoteEnd
           => Rules[last[c].rule].pattern # "patternBlockQuote"

\* Inside a block quote, at a line start, the window begins with a marker
\* the block quote pattern matches, and another rule was applied.
C4_Witness ==
    \E c \in Calls :
        /\ last[c].rule # 0
        /\ last[c].start < last[c].blockQuoteEnd
        /\ \E a \in 1..Len(nodes[c]) :
               /\ nodes[c][a].node.kind = "BlockQuoteNode"
               /\ IsDescendant(nodes[c], Len(nodes[c]), a)
        /\ Window(c)[1] = ">"
        /\ FindStringSubmatchIndex(patternBlockQuote, Window(c)) # NoMatch
        /\ \/ last[c].lastCapture = <<>>
           \/ last[c].lastCapture[Len(last[c].lastCapture)] = "\n"

(***************************************************************************)
(* C5.  The block rules are the block quote, the header and the newline    *)
(* rule.  An iteration applies one of them only if its match is the first  *)
(* of the call or the text the previous match consumed ends with a         *)
(* newline; that text is what lastCapture holds.  No other rule, the list  *)
(* rule included, is held back by it: of the rules before the applied one, *)
(* those that are neither block rules nor the block quote rule do not      *)
(* match the window.                                                       *)
(***************************************************************************)
C5_BlockRulesAfterNewline ==
    \A c \in Calls :
        last[c].rule # 0 =>
            LET n == Len(nodes[c])
                consumed == IF n = 1 THEN <<>>
                            ELSE SubSeq(source[c], nodes[c][n - 1].from + 1,
                                        nodes[c][n - 1].to)
            IN  /\ last[c].lastCapture = consumed
                /\ n > 1 => consumed # <<>>
                /\ \A j \in 1..Len(Rules) :
                       Rules[j].block <=>
                           Rules[j].pattern \in {"patternBlockQuote",
                                                 "patternHeaderItem",
                                                 "patternNewline"}
                /\ Rules[last[c].rule].block =>
                       \/ n = 1
                       \/ consumed[Len(consumed)] = "\n"
                /\ \A j \in 1..(last[c].rule - 1) :
                       ~Rules[j].block /\ ~Rules[j].blockQuote
                       => ~Matches(j, Window(c))

\* A block rule is applied after a match that ended with a newline, and
\* earlier in the call, at the top level, after a match that did not end
\* with a newline, the newline pattern matched what was left of the source
\* and another rule was applied.
C5_Witness ==
    \E c \in Calls :
        /\ last[c].rule # 0
        /\ Rules[last[c].rule].block
        /\ Len(nodes[c]) > 1
        /\ \E k \in 2..Len(nodes[c]) :
               /\ ~Rules[nodes[c][k].rule].block
               /\ nodes[c][k].parent = Root
               /\ source[c][nodes[c][k - 1].to] # "\n"
               /\ FindStringSubmatchIndex(
                      patternNewline,
                      SubSeq(source[c], nodes[c][k].from + 1,
                             Len(source[c]))) # NoMatch

(***************************************************************************)
(* C6.  The spans on the stack lie in the source from the top down: a span *)
(* pushed later ends where, or before, every span below it starts.  So the *)
(* descendants of a node are created before any later node outside it, and *)
(* the children of every node, in the order they were added, start at      *)
(* strictly increasing offsets, each where or after the one before ended.  *)
(***************************************************************************)
C6_OrderPreserved ==
    \A c \in Calls :
        /\ \A i, j \in 1..Len(remainingParses[c]) :
               i < j => remainingParses[c][j].end <= remainingParses[c][i].start
        /\ \A i, k \in 1..Len(nodes[c]) :
               IsDescendant(nodes[c], k, i) =>
                   \A j \in (i + 1)..k : IsDescendant(nodes[c], j, i)
        /\ \A i, j \in 1..Len(nodes[c]) :
               i < j /\ nodes[c][i].parent = nodes[c][j].parent
               => /\ nodes[c][i].from < nodes[c][j].from
                  /\ nodes[c][i].to <= nodes[c][j].from

\* Parse has returned a tree in which a node has a child and, after it, a
\* sibling: its match pushed a sibling continuation and a child span.
C6_Witness ==
    \E c \in Calls :
        /\ pc[c] = "done"
        /\ \E i, j, k \in 1..Len(nodes[c]) :
               /\ i < j /\ j < k
               /\ nodes[c][j].parent = i
               /\ nodes[c][k].parent = nodes[c][i].parent

(***************************************************************************)
(* C7.  For a source that starts with a backslash and a character that is  *)
(* neither alphanumeric nor white space, the first node of the tree is a   *)
(* child of the root made by the escape rule, a Text node whose content is *)
(* that character, and its match is the backslash and the character; it is *)
(* the only node when the source ends there.  The source \*a\* gives three *)
(* Text nodes, "*", "a" and "*".                                           *)
(***************************************************************************)
C7_Escaping ==
    \A c \in Calls :
        pc[c] = "done" /\ Len(source[c]) >= 2 /\ source[c][1] = "\\" =>
            LET r == DecodeRune(source[c], 2)[1]
                width == DecodeRune(source[c], 2)[2]
                text(content) == [node |-> [kind |-> "TextNode",
                                            Content |-> content],
                                  parent |-> Root]
            IN  r \notin Alnum \cup Space =>
                    /\ nodes[c] # <<>>
                    /\ TreeOf(nodes[c])[1] = text(Utf8(r))
                    /\ Rules[nodes[c][1].rule].pattern = "patternEscape"
                    /\ nodes[c][1].from = 0
                    /\ nodes[c][1].to = 1 + width
                    /\ Len(source[c]) = 1 + width => Len(nodes[c]) = 1
                    /\ source[c] = <<"\\", "*", "a", "\\", "*">> =>
                           TreeOf(nodes[c]) = <<text(<<"*">>), text(<<"a">>),
                                                text(<<"*">>)>>

\* Parse has returned the tree of \*a\*, three Text nodes.
C7_Witness ==
    \E c \in Calls :
        /\ pc[c] = "done"
        /\ source[c] = <<"\\", "*", "a", "\\", "*">>
        /\ Len(nodes[c]) = 3
        /\ \A k \in 1..3 : nodes[c][k].node.kind = "TextNode"

(***************************************************************************)
(* C8.  For a source that is not empty and holds only ASCII letters,       *)
(* digits and spaces, the tree Parse returns is one Text node under the    *)
(* root, and its content is the source.                                    *)
(***************************************************************************)
C8_PlainTextRoundTrip ==
    \A c \in Calls :
        /\ pc[c] = "done"
        /\ source[c] # <<>>
        /\ \A i \in 1..Len(source[c]) : source[c][i] \in Alnum \cup {" "}
        => TreeOf(nodes[c]) = <<[node |-> [kind |-> "TextNode",
                                           Content |-> source[c]],
                                 parent |-> Root]>>

\* Parse has returned the tree of a source of letters, digits and spaces
\* that holds a space between two other characters.
C8_Witness ==
    \E c \in Calls :
        /\ pc[c] = "done"
        /\ Len(source[c]) >= 3
        /\ \A i \in 1..Len(source[c]) : source[c][i] \in Alnum \cup {" "}
        /\ \E i \in 2..(Len(source[c]) - 1) :
               /\ source[c][i] = " "
               /\ source[c][i - 1] # " "
               /\ source[c][i + 1] # " "
        /\ Len(nodes[c]) = 1

(***************************************************************************)
(* C9.  The Parser is the one NewParser returned, whatever the calls of    *)
(* Parse did.  A call that has not started has no locals; the nodes a call *)
(* has created are, at every point of every interleaving, the first nodes  *)
(* the call creates when it runs alone, and all of them once it has        *)
(* returned.  Two calls with the same source return the same tree.         *)
(***************************************************************************)
C9_ParserIsStateless ==
    /\ p # <<>> => p[1] = NewParser(options)
    /\ \A c \in Calls :
           /\ pc[c] = "call" =>
                  /\ remainingParses[c] = <<>>
                  /\ nodes[c] = <<>>
                  /\ lastCapture[c] = <<>>
                  /\ blockQuoteEnd[c] = 0
           /\ pc[c] # "call" =>
                  LET alone == ParseAlone(NewParser(options), source[c])
                  IN  /\ Len(nodes[c]) <= Len(alone)
                      /\ nodes[c] = SubSeq(alone, 1, Len(nodes[c]))
                      /\ pc[c] = "done" => nodes[c] = alone
    /\ \A c, d \in Calls :
           pc[c] = "done" /\ pc[d] = "done" /\ source[c] = source[d]
           => TreeOf(nodes[c]) = TreeOf(nodes[d])

\* Both calls have returned, with different sources and trees of two nodes
\* or more, and one of them applied a block rule after its first match.
C9_Witness ==
    /\ \A c \in Calls : pc[c] = "done" /\ Len(nodes[c]) >= 2
    /\ source[1] # source[2]
    /\ \E c \in Calls :
           \E k \in 2..Len(nodes[c]) : Rules[nodes[c][k].rule].block

(***************************************************************************)
(* C10.  The Parser NewParser makes from nil has the rule table of the one *)
(* made from DefaultParserOptions, in the same order: the block quote rule *)
(* and the four mention rules are in it, the masked link, header and list  *)
(* rules are not.  The table made from the empty ParserOptions is another  *)
(* one, without the block quote and mention rules.                         *)
(***************************************************************************)
C10_NilIsDefault ==
    p # <<>> /\ options = <<>> =>
        LET has(parser, name) ==
                \E j \in 1..Len(parser.rules) : parser.rules[j].pattern = name
            empty == NewParser(<<EmptyOptions>>)
            mentions == {"patternChannelMention", "patternRoleMention",
                         "patternUserMention", "patternSpecialMention"}
        IN  /\ p[1] = NewParser(<<DefaultParserOptions>>)
            /\ has(p[1], "patternBlockQuote")
            /\ \A name \in mentions : has(p[1], name)
            /\ ~has(p[1], "patternMaskedLink")
            /\ ~has(p[1], "patternHeaderItem")
            /\ ~has(p[1], "patternListItem")
            /\ p[1] # empty
            /\ ~has(empty, "patternBlockQuote")
            /\ \A name \in mentions : ~has(empty, name)

\* A Parser made from nil has returned a tree with a BlockQuote node.
C10_Witness ==
    /\ p # <<>>
    /\ options = <<>>
    /\ \E c \in Calls :
           /\ pc[c] = "done"
           /\ \E k \in 1..Len(nodes[c]) :
                  nodes[c][k].node.kind = "BlockQuoteNode"

(***************************************************************************)
(* C11.  An iteration that pops an empty span (start >= end) discards that *)
(* span alone, adds no node, and goes on with the spans that are left; the *)
(* loop has ended only when no span is left.  The break of line 683 makes  *)
(* this fail: it ends the loop with the other spans still pending.         *)
(***************************************************************************)
C11_EmptySpanDiscarded ==
    [][\A c \in Calls :
           /\ pc[c] = "loop" /\ pc'[c] # "loop" =>
                  remainingParses'[c] = <<>>
           /\ pc[c] = "loop" /\ remainingParses'[c] # remainingParses[c] =>
                  LET depth == Len(remainingParses[c])
                      top == remainingParses[c][depth]
                  IN  top.start >= top.end =>
                          /\ remainingParses'[c] =
                                 SubSeq(remainingParses[c], 1, depth - 1)
                          /\ nodes'[c] = nodes[c]
                          /\ depth > 1 => pc'[c] = "loop"]_vars

(***************************************************************************)
(* C12.  An iteration applies a block rule only to a window that begins at *)
(* a line start of the source: at offset 0, or right after a newline byte. *)
(* This fails for the first window of the child span of a block quote or   *)
(* list item whose match ended with a newline: lastCapture is that match,  *)
(* and the window begins after its marker.                                 *)
(***************************************************************************)
C12_BlockRulesAtLineStart ==
    \A c \in Calls :
        last[c].rule # 0 /\ Rules[last[c].rule].block =>
            \/ last[c].start = 0
            \/ source[c][last[c].start] = "\n"

(***************************************************************************)
(* C13.  Parse terminates with its work done.  The match of an iteration   *)
(* consumes at least one byte, so the sibling continuation starts after    *)
(* the start of the popped span; the child span is shorter than the window *)
(* the match was found in; a call creates at most one node for every byte  *)
(* of its source; it does not panic; and when its loop has ended no span   *)
(* is left on the stack.  The last part fails: the break of line 683 ends  *)
(* the loop with spans still pending.                                      *)
(***************************************************************************)
C13_TerminatesWithEmptyStack ==
    \A c \in Calls :
        /\ last[c].rule # 0 =>
               LET new == nodes[c][Len(nodes[c])]
               IN  /\ new.from = last[c].start
                   /\ new.to > new.from
                   /\ new.to <= last[c].end
                   /\ new.recurse =>
                          new.end - new.start < last[c].end - last[c].start
        /\ Len(nodes[c]) <= Len(source[c])
        /\ pc[c] # "panic"
        /\ pc[c] \in {"return", "done"} => remainingParses[c] = <<>>

(***************************************************************************)
(* C14.  Every span on the stack lies in the source, 0 <= start <= end <=  *)
(* len(source); the child span pushed for a node lies between the start of *)
(* the window and the end of the match that created the node; and a span   *)
(* on the stack ends where, or before, every span below it starts.  The    *)
(* first two parts fail: for a >>> marker with nothing after it the block  *)
(* quote parser reads the offsets of the group that did not take part, -1  *)
(* and -1, and the span pushed starts one byte before the window.          *)
(***************************************************************************)
C14_SpansInBounds ==
    \A c \in Calls :
        /\ \A i \in 1..Len(remainingParses[c]) :
               /\ 0 <= remainingParses[c][i].start
               /\ remainingParses[c][i].start <= remainingParses[c][i].end
               /\ remainingParses[c][i].end <= Len(source[c])
        /\ \A k \in 1..Len(nodes[c]) :
               nodes[c][k].recurse =>
                   /\ nodes[c][k].from <= nodes[c][k].start
                   /\ nodes[c][k].start <= nodes[c][k].end
                   /\ nodes[c][k].end <= nodes[c][k].to
        /\ \A i, j \in 1..Len(remainingParses[c]) :
               i < j =>
                   remainingParses[c][j].end <= remainingParses[c][i].start

=============================================================================
